---- MODULE Spec2Model ----
(***************************************************************************)
(* stack_pool<T, N>: many singly linked stacks stored in one std::vector,  *)
(* nodes named by integer handles (src/exam/stack_pool.hpp).               *)
(*                                                                         *)
(* The pool's state is the vector `pool` (its elements and its capacity    *)
(* `cap`) and the free-list head `free_nodes`; `bits` is the width of the  *)
(* handle type N.  The caller's state is the heads it holds, `heads`, and  *)
(* its cursors `cur` and `cur2`.  `pool2` is a second stack_pool object.   *)
(* `ub` is set once a call has read or written outside the vector.         *)
(* `last` records the most recent call, its arguments and its return       *)
(* value.  `log`, `run`, `high` and `stale` observe the call history:      *)
(* log[s] is what was pushed on stack s and not popped since, run follows  *)
(* the pushes made after the latest free_stack, high is the largest number *)
(* of nodes held on stacks at one time, and stale follows the pushes made  *)
(* after a handle was popped twice.                                        *)
(***************************************************************************)
EXTENDS Integers, Sequences, FiniteSets

VARIABLES pool, cap, free_nodes, bits, heads, last, log, run,
          high, stale, ub, cur, cur2, pool2

vars == <<pool, cap, free_nodes, bits, heads, last, log, run,
          high, stale, ub, cur, cur2, pool2>>

\* the call history
history == <<last, log, run, high, stale>>

\* the cursors and the second pool
beside == <<cur, cur2, pool2>>

(* ------------------------------ bounds -------------------------------- *)

\* most nodes the vector is let grow to
MaxNodes == 3
\* stacks the caller holds
NStacks == 2
MaxCap == MaxNodes
Stacks == 1..NStacks

\* The payload type T.  The pool copies payloads and never reads them
\* (value(new_head) = val is its only use of one), so two of them are enough
\* to tell the order and the owner of any two nodes apart.
Values == {1, 2}

(* --------------------------- the handle type -------------------------- *)

\* Width of N = std::size_t, the default handle type.  The model's integers
\* are narrower than a machine word; 30 bits is far above every node count
\* the bounds allow, which is all the default instantiation needs.
WordBits == 30

\* T(): the payload of a value-initialised node_t
DefaultT == 0

RECURSIVE Pow2(_)
Pow2(w) == IF w = 0 THEN 1 ELSE 2 * Pow2(w - 1)

\* conversion of a size_type to the unsigned type N of b bits
ToN(n, b) == n % Pow2(b)

(* ------------------------------ the pool ------------------------------ *)

end == ToN(0, WordBits)

new_stack == end

empty(x) == x = end

node_t(v, n) == [value |-> v, next |-> n]

\* pool[x - 1] of the 0-based vector is element (x - 1) + 1 of the sequence
node(p, x) == p[(x - 1) + 1]

value(p, x) == node(p, x).value

next(p, x) == node(p, x).next

set_next(p, x, n) == [p EXCEPT ![(x - 1) + 1].next = n]

set_value(p, x, v) == [p EXCEPT ![(x - 1) + 1].value = v]

\* _push that links the node to the stack before it unlinks it from the
\* free list
_push_swapped(p, fr, val, head, b) ==
    LET grow     == fr = end
        p1       == IF grow THEN Append(p, node_t(DefaultT, end)) ELSE p
        f1       == IF grow THEN ToN(Len(p1), b) ELSE fr
        new_head == f1
        p2       == set_next(p1, new_head, head)
        f2       == next(p2, new_head)
        p3       == set_value(p2, new_head, val)
    IN  [pool |-> p3, free_nodes |-> f2, ret |-> new_head]

\* _push that leaves free_nodes on the node it hands out
_push_keep_free(p, fr, val, head, b) ==
    LET grow     == fr = end
        p1       == IF grow THEN Append(p, node_t(DefaultT, end)) ELSE p
        f1       == IF grow THEN ToN(Len(p1), b) ELSE fr
        new_head == f1
        p2       == set_next(p1, new_head, head)
        p3       == set_value(p2, new_head, val)
    IN  [pool |-> p3, free_nodes |-> f1, ret |-> new_head]

\* _push that returns free_nodes instead of new_head
_push_ret_free(p, fr, val, head, b) ==
    LET grow     == fr = end
        p1       == IF grow THEN Append(p, node_t(DefaultT, end)) ELSE p
        f1       == IF grow THEN ToN(Len(p1), b) ELSE fr
        new_head == f1
        f2       == next(p1, new_head)
        p2       == set_next(p1, new_head, head)
        p3       == set_value(p2, new_head, val)
    IN  [pool |-> p3, free_nodes |-> f2, ret |-> f2]

\* _push that never writes next(new_head)
_push_no_link(p, fr, val, head, b) ==
    LET grow     == fr = end
        p1       == IF grow THEN Append(p, node_t(DefaultT, end)) ELSE p
        f1       == IF grow THEN ToN(Len(p1), b) ELSE fr
        new_head == f1
        f2       == next(p1, new_head)
        p3       == set_value(p1, new_head, val)
    IN  [pool |-> p3, free_nodes |-> f2, ret |-> new_head]

\* _push: the vector and free list after the call, and the handle returned
_push(p, fr, val, head, b) ==
    LET grow     == fr = end
        p1       == IF grow THEN Append(p, node_t(DefaultT, end)) ELSE p
        f1       == IF grow THEN ToN(Len(p1), b) ELSE fr
        new_head == f1
        f2       == next(p1, new_head)
        p2       == set_next(p1, new_head, head)
        p3       == set_value(p2, new_head, val)
    IN  [pool |-> p3, free_nodes |-> f2, ret |-> new_head]

push(p, fr, val, head, b) == _push(p, fr, val, head, b)

\* pop that moves free_nodes before it links the node to the free list
pop_swapped(p, fr, head) ==
    LET new_stack_head == next(p, head)
        p1             == set_next(p, head, head)
    IN  [pool |-> p1, free_nodes |-> head, ret |-> new_stack_head]

\* pop that never writes next(head)
pop_no_splice(p, fr, head) ==
    LET new_stack_head == next(p, head)
    IN  [pool |-> p, free_nodes |-> head, ret |-> new_stack_head]

\* pop that never moves free_nodes
pop_keep_free(p, fr, head) ==
    LET new_stack_head == next(p, head)
        p1             == set_next(p, head, fr)
    IN  [pool |-> p1, free_nodes |-> fr, ret |-> new_stack_head]

pop(p, fr, head) ==
    LET new_stack_head == next(p, head)
        p1             == set_next(p, head, fr)
    IN  [pool |-> p1, free_nodes |-> head, ret |-> new_stack_head]

\* the loop of free_stack: current_node when next_node reaches end()
RECURSIVE last_node(_, _, _)
last_node(p, current_node, fuel) ==
    LET next_node == next(p, current_node)
    IN  IF next_node = end \/ fuel = 0
        THEN current_node
        ELSE last_node(p, next_node, fuel - 1)

\* free_stack that links the head, not the tail, to the free list
free_stack_head_only(p, fr, head) ==
    IF empty(head)
    THEN [pool |-> p, free_nodes |-> fr, ret |-> head]
    ELSE [pool |-> set_next(p, head, fr), free_nodes |-> head, ret |-> end]

\* free_stack that never moves free_nodes
free_stack_keep_free(p, fr, head) ==
    IF empty(head)
    THEN [pool |-> p, free_nodes |-> fr, ret |-> head]
    ELSE LET current_node == last_node(p, head, Len(p))
         IN  [pool |-> set_next(p, current_node, fr),
              free_nodes |-> fr, ret |-> end]

\* free_stack that writes free_nodes before it looks at head
free_stack_late_check(p, fr, head) ==
    IF empty(head)
    THEN [pool |-> p, free_nodes |-> head, ret |-> head]
    ELSE LET current_node == last_node(p, head, Len(p))
         IN  [pool |-> set_next(p, current_node, fr),
              free_nodes |-> head, ret |-> end]

\* free_stack that pops the nodes one by one
RECURSIVE free_each(_, _, _, _)
free_each(p, fr, h, fuel) ==
    IF h = end \/ fuel = 0
    THEN [pool |-> p, free_nodes |-> fr, ret |-> end]
    ELSE free_each(set_next(p, h, fr), h, next(p, h), fuel - 1)

free_stack_per_node(p, fr, head) == free_each(p, fr, head, Len(p))

free_stack(p, fr, head) ==
    IF empty(head)
    THEN [pool |-> p, free_nodes |-> fr, ret |-> head]
    ELSE LET current_node == last_node(p, head, Len(p))
         IN  [pool |-> set_next(p, current_node, fr),
              free_nodes |-> head, ret |-> end]

(* ----------------------- the vector's capacity ------------------------ *)

capacity(c) == c

\* reserve that fits the capacity to n
reserve_fit(c, n) == n..MaxCap

\* capacities pool.reserve(n) may leave: unchanged when n <= capacity(),
\* otherwise any capacity of at least n

reserve(c, n) == IF n > c THEN n..MaxCap ELSE {c}

\* capacities pool.push_back may leave for the new size: it reallocates
\* only when the new element does not fit
push_back(c, size) == IF size > c THEN size..MaxCap ELSE {c}

(* ----------------------------- the cursor ----------------------------- *)

\* handles a cursor begun at x stands on, in order, until it equals end();
\* it stops on a handle that names no element of the vector, and after
\* `fuel` advances
RECURSIVE Walk(_, _, _)
Walk(p, x, fuel) ==
    IF x = end \/ fuel = 0 THEN <<>>
    ELSE IF x \notin 1..Len(p) THEN <<x>>
    ELSE <<x>> \o Walk(p, next(p, x), fuel - 1)

Chain(p, x) == Walk(p, x, Len(p) + 1)

\* the values operator* yields along the way
Traverse(p, x) ==
    LET c == Chain(p, x)
    IN  [i \in 1..Len(c) |-> value(p, c[i])]

Range(s) == {s[i] : i \in 1..Len(s)}

(* ------------------------------ actions ------------------------------- *)

Reverse(q) == [i \in 1..Len(q) |-> q[Len(q) + 1 - i]]

NoDup(q) == \A i, j \in 1..Len(q) : i # j => q[i] # q[j]

\* a cursor begun at x only stands on elements of the vector and reaches
\* end() after the last of them
EndsAtEnd(p, x) ==
    LET c == Chain(p, x)
    IN  /\ Range(c) \subseteq 1..Len(p)
        /\ IF c = <<>> THEN x = end ELSE next(p, c[Len(c)]) = end

\* the elements of the vector a cursor begun at x stands on
RECURSIVE Reach(_, _, _)
Reach(p, x, fuel) ==
    IF x = end \/ fuel = 0 \/ x \notin 1..Len(p) THEN {}
    ELSE {x} \cup Reach(p, next(p, x), fuel - 1)

\* the nodes on the free list, and the nodes on the stacks of heads hs
FreeNodes(p, fr) == Reach(p, fr, Len(p) + 1)

LiveNodes(p, hs) == UNION {Reach(p, hs[s], Len(p) + 1) : s \in DOMAIN hs}

Max(a, b) == IF a >= b THEN a ELSE b

\* the largest number of nodes held on stacks at one time, given that it was
\* h before the call; it cannot exceed the number of nodes there are
Held(h, p, hs) ==
    IF h = Len(p) THEN h ELSE Max(h, Cardinality(LiveNodes(p, hs)))

Call(op, s, arg, head, ret) ==
    [op |-> op, s |-> s, arg |-> arg, head |-> head, ret |-> ret,
     size0 |-> Len(pool),
     popped |-> IF op = "push" /\ last.op = "pop" THEN last.head ELSE end]

\* no release is being followed
NoRun == [many |-> FALSE, owed |-> {}]

\* the pushes that follow a free_stack: `owed` are the released nodes no
\* push has returned yet and `many` says that two or more were released; the
\* record is kept until the call after the one that empties it
Followed(ret) ==
    IF run.owed = {} THEN NoRun ELSE [run EXCEPT !.owed = @ \ {ret}]

\* a call that is neither push, pop nor free_stack does not end a run
Kept == IF run.owed = {} THEN NoRun ELSE run

\* the latest call was not a pop
NoStale == [h |-> end, s |-> 0, pops |-> 0, n |-> 0, given |-> end]

\* most pushes counted after a handle was popped twice
MaxCount == 3

\* after pop(heads[s]): the handle popped, the slot it came from, and that
\* it was popped once
Popped(s) == [h |-> heads[s], s |-> s, pops |-> 1, n |-> 0, given |-> end]

\* after a push onto head: once handle stale.h was popped twice in a row, the
\* pushes that follow are counted and the head the latest was given is kept
Counted(head) ==
    IF stale.pops < 2 THEN NoStale
    ELSE [stale EXCEPT !.n = IF @ < MaxCount THEN @ + 1 ELSE @,
                       !.given = head]

\* no cursor
NoCursor == [pool |-> 0, start |-> 0, head |-> 0, seen |-> <<>>]

\* _iterator(pool, x): a cursor on handle x bound to stack_pool object k;
\* `start` is where it was last placed and `seen` what operator* has yielded
\* since
_iterator(k, x) == [pool |-> k, start |-> x, head |-> x, seen |-> <<>>]

begin(k, x) == _iterator(k, x)

\* operator= that copies the whole cursor, as the defaulted one would
assign_all(a, b) == _iterator(b.pool, b.head)

\* a = b: operator= copies head and nothing else
assign(a, b) == [_iterator(a.pool, b.head) EXCEPT !.pool = a.pool]

\* a == b
equal(a, b) == a.head = b.head

\* *it
deref(p, c) == value(p, c.head)

\* ++it that pops the node it leaves
increment_consuming(p, fr, c) ==
    LET r == pop(p, fr, c.head)
    IN  [pool |-> r.pool, free_nodes |-> r.free_nodes,
         cur |-> [c EXCEPT !.seen = Append(@, deref(p, c)), !.head = r.ret]]

\* *it followed by ++it: the pool it is bound to, and the cursor, afterwards
increment(p, fr, c) ==
    [pool |-> p, free_nodes |-> fr,
     cur |-> [c EXCEPT !.seen = Append(@, deref(p, c)),
                       !.head = next(p, c.head)]]

\* a second stack_pool object and the one head its caller holds
NoPool == [pool |-> <<>>, free_nodes |-> end, head |-> new_stack]

\* stack_pool(n): no nodes, an empty free list and, after reserve(n), room
\* for c >= n nodes, for a handle type of b bits
Start(b, c) ==
    /\ pool = <<>>
    /\ cap = c
    /\ free_nodes = end
    /\ bits = b
    /\ heads = [s \in Stacks |-> new_stack]
    /\ last = [op |-> "init", s |-> 0, arg |-> 0, head |-> 0, ret |-> 0,
               size0 |-> 0, popped |-> 0]
    /\ log = [s \in Stacks |-> <<>>]
    /\ run = NoRun
    /\ high = 0
    /\ stale = NoStale
    /\ ub = FALSE
    /\ cur = NoCursor
    /\ cur2 = NoCursor
    /\ pool2 = NoPool

\* stack_pool(): no capacity.  stack_pool(n) is this state followed by
\* Reserve(n).
Init == Start(WordBits, 0)

\* stack_pool(MaxCap): the vector never reallocates
InitReserved == Start(WordBits, MaxCap)

(* what each call does to the pool and to the caller's heads; nothing is  *)
(* said of a program after it has left the vector                         *)

NewStackPool(s) ==
    /\ ~ub
    /\ heads[s] = end
    /\ heads' = [heads EXCEPT ![s] = new_stack]
    /\ UNCHANGED <<pool, cap, free_nodes, bits, ub>>

ReservePool(n) ==
    /\ ~ub
    /\ cap' \in reserve(capacity(cap), n)
    /\ UNCHANGED <<pool, free_nodes, bits, heads, ub>>

\* a push that grows the vector is taken while the new size is within the
\* bound and is a value of N other than 0
PushPool(s, v) ==
    LET r == push(pool, free_nodes, v, heads[s], bits)
    IN  /\ ~ub
        /\ free_nodes = end =>
              /\ Len(pool) < MaxNodes
              /\ ToN(Len(pool) + 1, bits) # end
        /\ pool' = r.pool
        /\ free_nodes' = r.free_nodes
        /\ cap' \in push_back(capacity(cap), Len(pool'))
        /\ heads' = [heads EXCEPT ![s] = r.ret]
        /\ UNCHANGED <<bits, ub>>

PopPool(s) ==
    LET r == pop(pool, free_nodes, heads[s])
    IN  /\ ~ub
        /\ ~empty(heads[s])
        /\ pool' = r.pool
        /\ free_nodes' = r.free_nodes
        /\ heads' = [heads EXCEPT ![s] = r.ret]
        /\ UNCHANGED <<cap, bits, ub>>

\* the loop of free_stack returns only on a chain that reaches end()
FreeStackPool(s) ==
    LET r == free_stack(pool, free_nodes, heads[s])
    IN  /\ ~ub
        /\ EndsAtEnd(pool, heads[s])
        /\ pool' = r.pool
        /\ free_nodes' = r.free_nodes
        /\ heads' = [heads EXCEPT ![s] = r.ret]
        /\ UNCHANGED <<cap, bits, ub>>

(* the calls, with the history they leave *)

\* h = new_stack() into a slot that holds no nodes
NewStack(s) ==
    /\ NewStackPool(s)
    /\ last' = Call("new_stack", 0, 0, 0, new_stack)
    /\ log' = [log EXCEPT ![s] = <<>>]
    /\ run' = Kept
    /\ stale' = NoStale
    /\ UNCHANGED <<high, beside>>

\* pool.reserve(n): no effect when n <= capacity(), else capacity() >= n
Reserve(n) ==
    /\ ReservePool(n)
    /\ last' = Call("reserve", 0, 0, 0, 0)
    /\ run' = Kept
    /\ stale' = NoStale
    /\ UNCHANGED <<log, high, beside>>

\* heads[s] = push(v, heads[s])
Push(s, v) ==
    /\ PushPool(s, v)
    /\ last' = Call("push", s, v, heads[s], heads'[s])
    /\ log' = [log EXCEPT ![s] = Append(@, v)]
    /\ run' = Followed(heads'[s])
    /\ high' = Held(high, pool', heads')
    /\ stale' = Counted(heads[s])
    /\ UNCHANGED beside

\* heads[s] = pop(heads[s]) on a non-empty stack
Pop(s) ==
    /\ PopPool(s)
    /\ last' = Call("pop", s, 0, heads[s], heads'[s])
    /\ log' = [log EXCEPT ![s] = SubSeq(@, 1, Len(@) - 1)]
    /\ run' = NoRun
    /\ stale' = Popped(s)
    /\ UNCHANGED <<high, beside>>

\* heads[s] = free_stack(heads[s])
FreeStack(s) ==
    /\ FreeStackPool(s)
    /\ last' = Call("free_stack", s, 0, heads[s], heads'[s])
    /\ log' = [log EXCEPT ![s] = <<>>]
    /\ run' = [many |-> Len(Chain(pool, heads[s])) >= 2,
               owed |-> Range(Chain(pool, heads[s]))]
    /\ stale' = NoStale
    /\ UNCHANGED <<high, beside>>

Next ==
    \/ \E s \in Stacks : NewStack(s)
    \/ \E n \in 0..MaxCap : Reserve(n)
    \/ \E s \in Stacks, v \in Values : Push(s, v)
    \/ \E s \in Stacks : Pop(s)
    \/ \E s \in Stacks : FreeStack(s)

Spec == Init /\ [][Next]_vars

(* ------------------------ the caller's cursors ------------------------ *)

\* A cursor is not kept across a call that changes the pool: the pool is
\* called while no cursor is alive.  These are the calls of Next with only
\* that part of the history that the pool's state determines.
Idle == cur = NoCursor /\ cur2 = NoCursor

BareNewStack(s) ==
    /\ Idle
    /\ NewStackPool(s)
    /\ UNCHANGED <<history, beside>>

BareReserve(n) ==
    /\ Idle
    /\ ReservePool(n)
    /\ UNCHANGED <<history, beside>>

BarePush(s, v) ==
    /\ Idle
    /\ PushPool(s, v)
    /\ log' = [log EXCEPT ![s] = Append(@, v)]
    /\ high' = Held(high, pool', heads')
    /\ UNCHANGED <<last, run, stale, beside>>

BarePop(s) ==
    /\ Idle
    /\ PopPool(s)
    /\ log' = [log EXCEPT ![s] = SubSeq(@, 1, Len(@) - 1)]
    /\ UNCHANGED <<last, run, high, stale, beside>>

BareFreeStack(s) ==
    /\ Idle
    /\ FreeStackPool(s)
    /\ log' = [log EXCEPT ![s] = <<>>]
    /\ UNCHANGED <<last, run, high, stale, beside>>

\* auto it = pool.begin(heads[s])
Begin(s) ==
    /\ ~ub
    /\ cur = NoCursor
    /\ cur' = begin(1, heads[s])
    /\ UNCHANGED <<pool, cap, free_nodes, bits, heads, history, ub, cur2,
                   pool2>>

\* the vector and the free list of the stack_pool object a cursor is bound to
PoolOf(k) == IF k = 1 THEN pool ELSE pool2.pool

FreeOf(k) == IF k = 1 THEN free_nodes ELSE pool2.free_nodes

\* the body of `for (; it != pool.end(h); ++it) use(*it);` on a handle that
\* names an element of its pool
Step ==
    LET r == increment(PoolOf(cur.pool), FreeOf(cur.pool), cur)
    IN  /\ ~ub
        /\ cur # NoCursor
        /\ ~equal(cur, _iterator(cur.pool, end))
        /\ cur.head \in 1..Len(PoolOf(cur.pool))
        /\ cur' = r.cur
        /\ IF cur.pool = 1
           THEN /\ pool' = r.pool
                /\ free_nodes' = r.free_nodes
                /\ UNCHANGED pool2
           ELSE /\ pool2' = [pool2 EXCEPT !.pool = r.pool,
                                          !.free_nodes = r.free_nodes]
                /\ UNCHANGED <<pool, free_nodes>>
        /\ UNCHANGED <<cap, bits, heads, history, ub, cur2>>

\* the cursors go out of scope
Drop ==
    /\ ~ub
    /\ ~Idle
    /\ cur' = NoCursor
    /\ cur2' = NoCursor
    /\ UNCHANGED <<pool, cap, free_nodes, bits, heads, history, ub, pool2>>

NextCursor ==
    \/ \E s \in Stacks : BareNewStack(s)
    \/ \E n \in 0..MaxCap : BareReserve(n)
    \/ \E s \in Stacks, v \in Values : BarePush(s, v)
    \/ \E s \in Stacks : BarePop(s)
    \/ \E s \in Stacks : BareFreeStack(s)
    \/ \E s \in Stacks : Begin(s)
    \/ Step
    \/ Drop

SpecCursor == Init /\ [][NextCursor]_vars

\* the times free_stack(x) advances next_node until it equals end(x), at
\* most fuel + 1
RECURSIVE advances(_, _, _)
advances(p, next_node, fuel) ==
    IF next_node = end THEN 0
    ELSE IF fuel = 0 \/ next_node \notin 1..Len(p) THEN 1
    ELSE 1 + advances(p, next(p, next_node), fuel - 1)

(* ------------------------ a narrow handle type ------------------------ *)

\* Width of a handle type N narrower than the vector's size_type
NarrowBits == 2

InitNarrow == Start(NarrowBits, 0)

\* push(v, heads[s]) that makes the vector's size 2^bits with an empty free
\* list: free_nodes = pool.size() converts to 0, new_head is end(), and
\* next(new_head) and value(new_head) are pool[0 - 1], outside the vector.
\* What is read there, what is returned and what the call leaves in
\* free_nodes is any value of N.
PushWrap(s, v) ==
    /\ ~ub
    /\ free_nodes = end
    /\ ToN(Len(pool) + 1, bits) = end
    /\ pool' = Append(pool, node_t(DefaultT, end))
    /\ cap' = Max(capacity(cap), Len(pool'))
    /\ free_nodes' \in 0..(Pow2(bits) - 1)
    /\ \E ret \in 0..(Pow2(bits) - 1) : heads' = [heads EXCEPT ![s] = ret]
    /\ ub' = TRUE
    /\ last' = Call("push", s, v, heads[s], heads'[s])
    /\ log' = [log EXCEPT ![s] = Append(@, v)]
    /\ run' = Followed(heads'[s])
    /\ UNCHANGED <<bits, high, stale, beside>>

NextNarrow ==
    \/ \E s \in Stacks : NewStack(s)
    \/ \E n \in 0..MaxCap : Reserve(n)
    \/ \E s \in Stacks, v \in Values : Push(s, v)
    \/ \E s \in Stacks : Pop(s)
    \/ \E s \in Stacks : FreeStack(s)
    \/ \E s \in Stacks, v \in Values : PushWrap(s, v)

SpecNarrow == InitNarrow /\ [][NextNarrow]_vars

(* --------------------------- handles misused ------------------------- *)

\* some node is on the free list and on a held chain
Hazard ==
    \E x \in FreeNodes(pool, free_nodes) : x \in LiveNodes(pool, heads)

\* the traversal from some head does not yield what was pushed there
Damaged == \E s \in Stacks : Traverse(pool, heads[s]) # Reverse(log[s])

\* the nodes two heads both reach
Shared(p, x, y) == Range(Chain(p, x)) \cap Range(Chain(p, y))

\* heads[t] = heads[s]: a handle is a value of N the caller may copy, after
\* which two heads name the same chain; one pair of heads at a time
Fork(s, t) ==
    /\ ~ub
    /\ s # t
    /\ ~empty(heads[s])
    /\ empty(heads[t])
    /\ ~Hazard
    /\ ~Damaged
    /\ \A x, y \in Stacks :
           x # y => Shared(pool, heads[x], heads[y]) = {}
    /\ heads' = [heads EXCEPT ![t] = heads[s]]
    /\ log' = [log EXCEPT ![t] = log[s]]
    /\ UNCHANGED <<pool, cap, free_nodes, bits, last, run, high, stale, ub,
                   beside>>

\* the pushes up to the first one that damages a traversal
PushSome(s, v) ==
    /\ ~Damaged
    /\ BarePush(s, v)

\* the first free_stack of a chain that another head reaches too; the calls
\* after it are pushes
FreeStackOnce(s) ==
    /\ ~Hazard
    /\ ~Damaged
    /\ \E t \in Stacks \ {s} : Shared(pool, heads[s], heads[t]) # {}
    /\ BareFreeStack(s)

NextAlias ==
    \/ \E s \in Stacks, v \in Values : PushSome(s, v)
    \/ \E s \in Stacks : FreeStackOnce(s)
    \/ \E s, t \in Stacks : Fork(s, t)

SpecAlias == InitReserved /\ [][NextAlias]_vars

\* The calls of a caller that pops a handle twice, with only that part of
\* the history that the pool's state determines and `stale`.

\* heads[s] = pop(heads[s]), until a handle has been popped twice
PopFresh(s) ==
    /\ stale.pops < 2
    /\ PopPool(s)
    /\ log' = [log EXCEPT ![s] = SubSeq(@, 1, Len(@) - 1)]
    /\ stale' = Popped(s)
    /\ UNCHANGED <<last, run, high, beside>>

\* pop(h) once more on the handle h that the latest call, a pop, was given;
\* the caller stores what it returns in the same slot or drops it
StalePop ==
    LET h == stale.h
        r == pop(pool, free_nodes, h)
    IN  /\ ~ub
        /\ stale.pops = 1
        /\ pool' = r.pool
        /\ free_nodes' = r.free_nodes
        /\ heads' \in {heads, [heads EXCEPT ![stale.s] = r.ret]}
        /\ stale' = [stale EXCEPT !.pops = 2]
        /\ UNCHANGED <<cap, bits, ub, last, log, run, high, beside>>

\* The handle a push returns does not depend on the payload: this caller
\* pushes the same one every time.
Payload == CHOOSE v \in Values : TRUE

\* heads[s] = push(Payload, heads[s]); after a handle was popped twice, the
\* first MaxCount pushes
PushCounted(s) ==
    /\ stale.n < MaxCount
    /\ PushPool(s, Payload)
    /\ log' = [log EXCEPT ![s] = Append(@, Payload)]
    /\ high' = Held(high, pool', heads')
    /\ stale' = Counted(heads[s])
    /\ UNCHANGED <<last, run, beside>>

NextStale ==
    \/ \E s \in Stacks : PushCounted(s)
    \/ \E s \in Stacks : PopFresh(s)
    \/ StalePop

SpecStale == InitReserved /\ [][NextStale]_vars

(* -------------------- cursors of two stack_pool objects --------------- *)

\* pool2.head = pool2.push(T(), pool2.head) on the second stack_pool object
Push2 ==
    LET r == push(pool2.pool, pool2.free_nodes, DefaultT, pool2.head, bits)
    IN  /\ ~ub
        /\ Idle
        /\ Len(pool2.pool) < MaxNodes
        /\ pool2' = [pool |-> r.pool, free_nodes |-> r.free_nodes,
                     head |-> r.ret]
        /\ UNCHANGED <<pool, cap, free_nodes, bits, heads, history, ub, cur,
                       cur2>>

\* auto b = pool2.begin(pool2.head)
Begin2 ==
    /\ ~ub
    /\ cur2 = NoCursor
    /\ cur2' = begin(2, pool2.head)
    /\ UNCHANGED <<pool, cap, free_nodes, bits, heads, history, ub, cur,
                   pool2>>

\* ++b
Step2 ==
    LET r == increment(PoolOf(cur2.pool), FreeOf(cur2.pool), cur2)
    IN  /\ ~ub
        /\ cur2 # NoCursor
        /\ ~equal(cur2, _iterator(cur2.pool, end))
        /\ cur2.head \in 1..Len(PoolOf(cur2.pool))
        /\ cur2' = r.cur
        /\ UNCHANGED <<pool, cap, free_nodes, bits, heads, history, ub, cur,
                       pool2>>

\* a = b
Assign ==
    /\ ~ub
    /\ cur # NoCursor
    /\ cur2 # NoCursor
    /\ cur' = assign(cur, cur2)
    /\ UNCHANGED <<pool, cap, free_nodes, bits, heads, history, ub, cur2,
                   pool2>>

\* *a and ++a on a handle that names no element of the vector a is bound to:
\* node(head) is outside the vector, and what is read there is any payload
\* and any handle
StepWild ==
    /\ ~ub
    /\ cur # NoCursor
    /\ ~equal(cur, _iterator(cur.pool, end))
    /\ cur.head \notin 1..Len(PoolOf(cur.pool))
    /\ ub' = TRUE
    /\ \E v \in Values \cup {DefaultT}, h \in 0..MaxNodes :
           cur' = [cur EXCEPT !.seen = Append(@, v), !.head = h]
    /\ UNCHANGED <<pool, cap, free_nodes, bits, heads, history, cur2, pool2>>

NextAssign ==
    \/ \E s \in Stacks, v \in Values : BarePush(s, v)
    \/ Push2
    \/ \E s \in Stacks : Begin(s)
    \/ Begin2
    \/ Step
    \/ Step2
    \/ Assign
    \/ StepWild
    \/ Drop

SpecAssign == InitReserved /\ [][NextAssign]_vars

\* sizes and handles stay within the vector
TypeOK ==
    /\ Len(pool) <= MaxNodes
    /\ cap \in Len(pool)..MaxCap
    /\ free_nodes \in 0..Len(pool)
    /\ \A s \in Stacks : heads[s] \in 0..Len(pool)

(* ----------------------------- properties ----------------------------- *)

\* Claim C1 (LIFO order): log[s] holds the values pushed on stack s that are
\* still on it, oldest first; for a stack that started as new_stack() and
\* was pushed v1..vk it is <<v1, ..., vk>>.  A cursor begun at the head
\* yields them newest first, vk, ..., v1, and then equals the end cursor,
\* whatever the free list was while the pushes were made.
C1_LIFO ==
    \A s \in Stacks :
        /\ Traverse(pool, heads[s]) = Reverse(log[s])
        /\ EndsAtEnd(pool, heads[s])

\* two or more pushes of differing values have been made on one stack, the
\* last of them reusing a node from a free list that is still not empty
C1_Witness ==
    \E s \in Stacks :
        /\ Len(log[s]) >= 2
        /\ log[s][1] # log[s][2]
        /\ last.op = "push" /\ last.s = s
        /\ last.size0 = Len(pool)
        /\ free_nodes # end

\* the chains the caller and the pool hold: the stacks, and 0 for the free
\* list
Owners == Stacks \cup {0}

ChainOf(o) == IF o = 0 THEN Chain(pool, free_nodes) ELSE Chain(pool, heads[o])

\* Claim C2 (partition): every node 1..size is reachable from exactly one of
\* the held heads and free_head: none from two of them, none from none.
C2_Partition ==
    \A n \in 1..Len(pool) :
        Cardinality({o \in Owners : n \in Range(ChainOf(o))}) = 1

\* both stacks and the free list hold a node, after a pop or a free_stack
C2_Witness ==
    /\ last.op \in {"pop", "free_stack"}
    /\ last.head # end
    /\ free_nodes # end
    /\ \A s \in Stacks : heads[s] # end

\* Claim C3 (free list well formed): following next from free_head visits
\* only handles 1..size, none twice, and reaches the sentinel 0.
C3_FreeListWellFormed ==
    /\ EndsAtEnd(pool, free_nodes)
    /\ NoDup(Chain(pool, free_nodes))

\* a free list of two or more nodes
C3_Witness ==
    /\ Len(Chain(pool, free_nodes)) >= 2
    /\ last.op \in {"pop", "free_stack"}

\* Claim C4: free_stack returns the sentinel for every head, and the k
\* pushes that follow the release of a stack of k nodes (no pop or
\* free_stack in between) return those k nodes, each once, without adding a
\* node to the vector: each such push returns a released node that no push
\* has returned yet, so k of them return all k.
C4_FreeStackReuse ==
    [][/\ last'.op = "free_stack" => last'.ret = 0
       /\ (last'.op = "push" /\ run.owed # {}) =>
             /\ last'.ret \in run.owed
             /\ Len(pool') = Len(pool)
             /\ Cardinality(run'.owed) = Cardinality(run.owed) - 1]_vars

\* a stack of two or more nodes was released and the pushes that followed
\* have returned all of its nodes
C4_Witness ==
    /\ run.many
    /\ run.owed = {}
    /\ last.op = "push"

\* Claim C5 (free list first): a push that immediately follows pop(h)
\* returns h, and the vector has as many nodes after the push as before the
\* pop.
C5_PopThenPush ==
    [][(last.op = "pop" /\ last'.op = "push") =>
          /\ last'.ret = last.head
          /\ Len(pool') = last.size0]_vars

\* a push made right after a pop has returned the popped handle, while
\* another stack holds nodes
C5_Witness ==
    /\ last.op = "push"
    /\ last.popped # end
    /\ heads[last.s] = last.popped
    /\ \E s \in Stacks : s # last.s /\ heads[s] # end

Mutating == {"push", "pop", "free_stack"}

\* Claim C6 (isolation): a push, pop or free_stack on one held stack leaves
\* every other held stack's head, the handles its traversal visits and the
\* values it yields unchanged, and that head still leads to the sentinel.
C6_Isolation ==
    [][last'.op \in Mutating =>
          \A b \in Stacks \ {last'.s} :
              LET before == Chain(pool, heads[b])
                  after  == Chain(pool', heads'[b])
              IN  /\ heads'[b] = heads[b]
                  /\ after = before
                  /\ \A i \in 1..Len(after) :
                        /\ after[i] \in 1..Len(pool')
                        /\ value(pool', after[i]) = value(pool, before[i])
                  /\ after # <<>> => next(pool', after[Len(after)]) = end]_vars

\* a call on one stack reused or released a node while the other stack held
\* two or more nodes
C6_Witness ==
    /\ last.op \in Mutating
    /\ last.size0 = Len(pool)
    /\ last.head # end \/ last.ret # end
    /\ \E b \in Stacks \ {last.s} : Len(Chain(pool, heads[b])) >= 2

\* Claim C7 (monotone storage): no call lowers the capacity or the number
\* of nodes; reserve(n) with n below the capacity leaves the capacity as it
\* is; pop and free_stack leave the number of nodes as it is.
C7_MonotoneStorage ==
    [][/\ cap' >= cap
       /\ Len(pool') >= Len(pool)
       /\ last'.op = "reserve" =>
             \A n \in 0..MaxCap : (n < cap /\ Reserve(n)) => cap' = cap
       /\ last'.op \in {"pop", "free_stack"} => Len(pool') = Len(pool)]_vars

\* reserve was called on a pool with nodes and left a capacity equal to the
\* number of nodes: the capacity was already that, so the call is the one
\* reserve(n) makes for every n up to it, reserve(0) among them
C7_Witness ==
    /\ last.op = "reserve"
    /\ Len(pool) >= 2
    /\ cap = Len(pool)

\* Claim C8 (sentinel never live): new_stack returns 0, which is empty;
\* push returns a handle other than 0, which is not empty; and every handle
\* on a held stack or on the free list is one of 1..size, never 0.
C8_SentinelNeverLive ==
    /\ last.op = "new_stack" => last.ret = 0 /\ empty(last.ret)
    /\ last.op = "push" => last.ret # 0 /\ ~empty(last.ret)
    /\ \A o \in Owners : Range(ChainOf(o)) \subseteq 1..Len(pool)

\* a push onto an empty stack that grew the vector while another stack was
\* held
C8_Witness ==
    /\ last.op = "push"
    /\ last.head = end
    /\ last.size0 < Len(pool)
    /\ \E s \in Stacks \ {last.s} : heads[s] # end

\* Claim C9 (pop): pop(head) returns what next(head) was, leaves
\* free_head = head and next(head) = the former free_head, changes no value
\* and no other next, and the traversal from the returned handle is the old
\* traversal without its first value.
C9_Pop ==
    [][last'.op = "pop" =>
          LET head == last'.head
          IN  /\ last'.ret = next(pool, head)
              /\ free_nodes' = head
              /\ next(pool', head) = free_nodes
              /\ Len(pool') = Len(pool)
              /\ \A x \in 1..Len(pool) : x # head => pool'[x] = pool[x]
              /\ Traverse(pool', last'.ret) = Tail(Traverse(pool, head))]_vars

\* a pop of a stack of two or more nodes onto a free list that was not
\* empty
C9_Witness ==
    /\ last.op = "pop"
    /\ last.ret # end
    /\ next(pool, last.head) # end

\* Claim C10 (push): push appends one node exactly when free_head is the
\* sentinel; it then returns the new node count and free_head stays the
\* sentinel.  Otherwise the node count stays, it returns the old free_head
\* and free_head becomes that node's old successor.  Either way the returned
\* node holds the value and next = head, and no other node changes.
C10_Push ==
    [][last'.op = "push" =>
          LET ret == last'.ret
          IN  /\ Len(pool') = Len(pool) + 1 <=> free_nodes = end
              /\ Len(pool') \in {Len(pool), Len(pool) + 1}
              /\ free_nodes = end =>
                    ret = Len(pool') /\ free_nodes' = end
              /\ free_nodes # end =>
                    /\ Len(pool') = Len(pool)
                    /\ ret = free_nodes
                    /\ free_nodes' = next(pool, free_nodes)
              /\ value(pool', ret) = last'.arg
              /\ next(pool', ret) = last'.head
              /\ \A x \in 1..Len(pool) : x # ret => pool'[x] = pool[x]]_vars

\* a push that took the first of two free nodes, onto a stack that was not
\* empty
C10_Witness ==
    /\ last.op = "push"
    /\ last.size0 = Len(pool)
    /\ free_nodes # end
    /\ last.head # end

\* Claim C11: free_stack(0) is a no-op.  Called with the sentinel it returns
\* the sentinel and leaves free_head, the number of nodes and every node's
\* value and next as they are, whatever the pool holds.
C11_FreeStackOfSentinel ==
    [][(last'.op = "free_stack" /\ last'.head = 0) =>
          /\ last'.ret = 0
          /\ free_nodes' = free_nodes
          /\ pool' = pool]_vars

\* free_stack was called with the sentinel on a pool whose free list and
\* other stack both hold nodes
C11_Witness ==
    /\ last.op = "free_stack"
    /\ last.head = 0
    /\ free_nodes # end
    /\ \E s \in Stacks : heads[s] # end

\* the handles n pushes in a row return, each onto the stack the one before
\* it made
RECURSIVE Pushes(_, _, _, _, _)
Pushes(p, fr, head, b, n) ==
    IF n = 0 THEN <<>>
    ELSE LET r == push(p, fr, CHOOSE v \in Values : TRUE, head, b)
         IN  <<r.ret>> \o Pushes(r.pool, r.free_nodes, r.ret, b, n - 1)

\* Claim C14 (splice order): free_stack(h1) of a stack h1 -> ... -> hk over a
\* free list f1 -> ... -> fm sets free_head = h1 and next(hk) = f1 (0 when
\* the free list is empty) and changes no other node, so that the free list
\* is h1, ..., hk, f1, ..., fm; the pushes that follow return the handles in
\* that order without growing the vector: each push from a free list that is
\* not empty returns its first handle and leaves the rest in order.
C14_SpliceOrder ==
    [][/\ (last'.op = "free_stack" /\ last'.head # 0) =>
             LET stack == Chain(pool, last'.head)
                 free  == Chain(pool, free_nodes)
                 hk    == stack[Len(stack)]
             IN  /\ free_nodes' = last'.head
                 /\ next(pool', hk) = free_nodes
                 /\ \A x \in 1..Len(pool) : x # hk => pool'[x] = pool[x]
                 /\ Len(pool') = Len(pool)
                 /\ Chain(pool', free_nodes') = stack \o free
                 /\ Pushes(pool', free_nodes', end, bits,
                           Len(stack) + Len(free)) = stack \o free
       /\ (last'.op = "push" /\ free_nodes # 0) =>
             /\ last'.ret = Chain(pool, free_nodes)[1]
             /\ Chain(pool', free_nodes') = Tail(Chain(pool, free_nodes))
             /\ Len(pool') = Len(pool)]_vars

\* a stack of two nodes was released onto a free list that was not empty
C14_Witness ==
    /\ last.op = "free_stack"
    /\ last.head # 0
    /\ Len(Chain(pool, free_nodes)) >= 3
    /\ run.many

\* Claim C15 (per-node state machine): a node goes from Free to Live only in
\* a push, and exactly the returned node does in a push that does not grow
\* the vector; a node goes from Live to Free only in a pop, exactly the head
\* node, or in a free_stack, exactly the nodes of the released stack; and a
\* node of the vector is always Free or Live, never both.
C15_NodeStates ==
    [][(pool' # pool \/ free_nodes' # free_nodes \/ heads' # heads) =>
       LET free0  == FreeNodes(pool, free_nodes)
           live0  == LiveNodes(pool, heads)
           free1  == FreeNodes(pool', free_nodes')
           live1  == LiveNodes(pool', heads')
           toLive == free0 \ free1
           toFree == free1 \ free0
       IN  /\ live1 = (1..Len(pool')) \ free1
           /\ toLive \subseteq live1
           /\ toFree \subseteq live0
           /\ toLive # {} => last'.op = "push"
           /\ (last'.op = "push" /\ Len(pool') = Len(pool)) =>
                 toLive = {last'.ret}
           /\ toFree # {} => last'.op \in {"pop", "free_stack"}
           /\ last'.op = "pop" => toFree = {last'.head}
           /\ last'.op = "free_stack" =>
                 toFree = Range(Chain(pool, last'.head))]_vars

\* a free_stack moved two or more nodes to the free list while the other
\* stack kept a node
C15_Witness ==
    /\ last.op = "free_stack"
    /\ run.many
    /\ LiveNodes(pool, heads) # {}
    /\ Len(pool) >= 3

\* Claim C18 (high-water mark): after every call the number of nodes in the
\* vector is the largest number of nodes that were on held stacks at one
\* time so far; and a push grows the vector only when every node that
\* existed before it is on a held stack and none is on the free list.
C18_HighWater ==
    [][/\ high' = Len(pool')
       /\ Len(pool') > Len(pool) =>
              /\ LiveNodes(pool, heads) = 1..Len(pool)
              /\ FreeNodes(pool, free_nodes) = {}]_vars

\* a push has grown the vector to two or more nodes, its size is the
\* high-water mark, and some stack is empty
C18_Witness ==
    /\ last.op = "push"
    /\ Len(pool) = last.size0 + 1
    /\ Len(pool) >= 2
    /\ high = Len(pool)
    /\ \E s \in Stacks : heads[s] = end

\* Claim C12 (non-mutating operations): new_stack, reserve, and creating,
\* advancing, dereferencing and destroying a cursor leave free_nodes, the
\* number of nodes and every node's value and next as they were (empty,
\* capacity and the reads value and next are operators of the state and have
\* no step); so every push, pop and free_stack made after such a call
\* returns the same handle and leaves the same pool as it would have before
\* it, and what a cursor has yielded is the start of what a new cursor begun
\* at the same head yields.
C12_NonMutating ==
    [][(\/ \E s \in Stacks : BareNewStack(s)
        \/ \E n \in 0..MaxCap : BareReserve(n)
        \/ \E s \in Stacks : Begin(s)
        \/ Step
        \/ Drop)
       => /\ free_nodes' = free_nodes
          /\ Len(pool') = Len(pool)
          /\ \A x \in 1..Len(pool) :
                 /\ value(pool', x) = value(pool, x)
                 /\ next(pool', x) = next(pool, x)
          /\ \A s \in Stacks :
                 /\ \A v \in Values :
                        push(pool', free_nodes', v, heads'[s], bits')
                            = push(pool, free_nodes, v, heads[s], bits)
                 /\ ~empty(heads[s]) =>
                        pop(pool', free_nodes', heads'[s])
                            = pop(pool, free_nodes, heads[s])
                 /\ free_stack(pool', free_nodes', heads'[s])
                        = free_stack(pool, free_nodes, heads[s])
          /\ cur' # NoCursor =>
                 LET again == Traverse(pool', cur'.start)
                 IN  /\ Len(cur'.seen) <= Len(again)
                     /\ cur'.seen = SubSeq(again, 1, Len(cur'.seen))]_vars

\* a cursor has gone through a stack of two or more nodes to the end, in a
\* pool whose free list is not empty
C12_Witness ==
    /\ cur # NoCursor
    /\ equal(cur, _iterator(1, end))
    /\ Len(cur.seen) >= 2
    /\ free_nodes # end

\* Claim C17 (termination): in every state reached by valid use, each held
\* chain is acyclic and ends in end(); the loop of free_stack(head) ends
\* after advancing next_node exactly as many times as the stack has nodes;
\* and a cursor begun at a head equals the end cursor after exactly as many
\* advances as the stack has nodes, and not before.
C17_Termination ==
    /\ \A s \in Stacks :
           /\ EndsAtEnd(pool, heads[s])
           /\ NoDup(Chain(pool, heads[s]))
           /\ advances(pool, heads[s], Len(pool) + 1) = Len(log[s])
           /\ ~empty(heads[s]) =>
                  next(pool, last_node(pool, heads[s], Len(pool))) = end
    /\ cur # NoCursor =>
           \A s \in Stacks :
               heads[s] = cur.start =>
                   /\ Len(cur.seen) <= Len(log[s])
                   /\ equal(cur, _iterator(1, end))
                          <=> Len(cur.seen) = Len(log[s])

\* a cursor has reached the end of a stack of two or more nodes, of which the
\* head is not the node created last
C17_Witness ==
    /\ cur # NoCursor
    /\ equal(cur, _iterator(1, end))
    /\ Len(cur.seen) >= 2
    /\ cur.start # Len(pool)

\* Claim C13 (handle width): for a handle type of `bits` bits that can hold
\* every index of the vector, a push that grows the vector returns a handle
\* that is not end(), differs from the handle of every node that existed,
\* and names the new node, slot h - 1; this includes the push that makes
\* node number 2^bits.
C13_HandleWidth ==
    [][(/\ last'.op = "push"
        /\ Len(pool') > Len(pool)
        /\ Len(pool') - 1 < Pow2(bits))
       => /\ last'.ret # end
          /\ last'.ret \notin 1..Len(pool)
          /\ last'.ret - 1 = Len(pool') - 1]_vars

\* Claim C16 (aliasing hazard): when two held heads A and B share nodes (both
\* were built on the same chain), free_stack(A) is carried out all the same,
\* and after it every shared node is on the free list while the traversal
\* from B still visits it.
C16_SharedTail ==
    [][\A a, b \in Stacks :
           LET shared == Shared(pool, heads[a], heads[b])
           IN  (/\ a # b
                /\ shared # {}
                /\ FreeStackOnce(a))
               => /\ heads'[a] = end
                  /\ shared \subseteq FreeNodes(pool', free_nodes')
                  /\ shared \subseteq Range(Chain(pool', heads'[b]))]_vars

\* a later push has been handed a node that the traversal from another
\* head B still visits and has overwritten it: the head of stack A is a node
\* below the head of B, a stack of two or more pushes, and the traversal
\* from B yields there a value other than the one pushed on B
C16_Witness ==
    \E a, b \in Stacks :
        /\ a # b
        /\ Len(log[b]) >= 2
        /\ ~empty(heads[a])
        /\ heads[a] # heads[b]
        /\ \E i \in 2..Len(log[b]) :
               /\ i <= Len(Chain(pool, heads[b]))
               /\ Chain(pool, heads[b])[i] = heads[a]
               /\ Traverse(pool, heads[b])[i] # Reverse(log[b])[i]

\* Claim C19 (stale-handle pop) as stated: pop(h) twice in a row leaves
\* free_nodes = h and next(h) = h, and from that state every subsequent push
\* returns h without growing the vector.
C19_EveryPushReturnsH ==
    [][/\ (stale.pops = 1 /\ stale'.pops = 2) =>
              /\ free_nodes' = stale.h
              /\ next(pool', stale.h) = stale.h
       /\ \A s \in Stacks :
              (stale.pops = 2 /\ PushCounted(s)) =>
                  /\ heads'[s] = stale.h
                  /\ Len(pool') = Len(pool)]_vars

\* Claim C19 (stale-handle pop), amended: pop(h) twice in a row leaves
\* free_nodes = h and next(h) = h; from that state the next two pushes return
\* h without growing the vector, so two different stacks receive the same
\* head handle; the first of them leaves free_nodes = h and the second
\* leaves in free_nodes the head that the first was given, so a third push
\* returns that handle, or grows the vector when it is end().
C19_StalePop ==
    [][/\ (stale.pops = 1 /\ stale'.pops = 2) =>
              /\ free_nodes' = stale.h
              /\ next(pool', stale.h) = stale.h
       /\ \A s \in Stacks :
              (stale.pops = 2 /\ PushCounted(s)) =>
                  /\ stale.n < 2 =>
                         /\ heads'[s] = stale.h
                         /\ Len(pool') = Len(pool)
                  /\ stale.n = 0 => free_nodes' = stale.h
                  /\ stale.n = 1 => free_nodes' = stale.given
                  /\ stale.n = 2 =>
                         IF free_nodes = end
                         THEN /\ Len(pool') = Len(pool) + 1
                              /\ heads'[s] = Len(pool')
                         ELSE /\ Len(pool') = Len(pool)
                              /\ heads'[s] = free_nodes]_vars

\* after h was popped twice, two pushes have given two different stacks the
\* same head h
C19_Witness ==
    /\ stale.pops = 2
    /\ stale.n = 2
    /\ \E s, t \in Stacks :
           s # t /\ heads[s] = stale.h /\ heads[t] = stale.h

\* Claim C20 (cursor assignment): a = b copies b's handle and leaves a bound
\* to the pool it was constructed with, so a == b holds afterwards; reading
\* and advancing a, begun on the first pool, then use the node with that
\* handle in the first pool whatever pool b is bound to; and two cursors on
\* the same handle compare equal whatever pools they are bound to.
C20_Assignment ==
    [][/\ Assign =>
              /\ cur'.head = cur2.head
              /\ cur'.pool = cur.pool
              /\ equal(cur', cur2')
       /\ Step =>
              /\ cur'.seen = Append(cur.seen, value(pool, cur.head))
              /\ cur'.head = next(pool, cur.head)
              /\ cur'.pool = 1
       /\ (cur # NoCursor /\ cur2 # NoCursor /\ cur.head = cur2.head)
              => equal(cur, cur2)]_vars

\* a, begun on the first pool, was assigned b, a cursor of the second pool on
\* a handle that is no head in the first, and has then yielded the value of
\* that handle's node in the first pool, which is not its value in the
\* second
C20_Witness ==
    /\ ~ub
    /\ cur # NoCursor
    /\ cur2 # NoCursor
    /\ cur.pool # cur2.pool
    /\ cur.seen # <<>>
    /\ cur.start \in 1..Len(pool)
    /\ cur.start \in 1..Len(pool2.pool)
    /\ \A s \in Stacks : heads[s] # cur.start
    /\ cur.seen[1] = value(pool, cur.start)
    /\ cur.seen[1] # value(pool2.pool, cur.start)

====
